---- MODULE Spec2Model ----
(***************************************************************************)
(* wscreensaver-bridge: the org.freedesktop.ScreenSaver bridge of          *)
(* src/main.rs.  The model follows the cookie map (inhibitors_by_cookie),  *)
(* the two D-Bus methods (inhibit, un_inhibit), the heartbeat task and the *)
(* shutdown path of main.                                                  *)
(*                                                                         *)
(* Scheduling: main runs on a current_thread runtime and spawns heartbeat   *)
(* on it; the method handlers are run by the executor of the zbus          *)
(* connection, one thread in every build, so the synchronous stretch of a  *)
(* handler (from one await to the next) is never interleaved with another  *)
(* handler (ExecutorFree).  The map is an Arc<Mutex<HashMap>> and the      *)
(* heartbeat takes it with try_lock and handles WouldBlock: heartbeat and  *)
(* main are allowed to run between two critical sections of a handler, one *)
(* step per acquisition of the mutex or per await point.  `lock` is the    *)
(* holder of the mutex.  Mutex poisoning (a panic inside a critical        *)
(* section) is not modelled.                                               *)
(***************************************************************************)
EXTENDS Integers, FiniteSets, Sequences, TLC

\* ---- bounds ----
NumTasks == 2        \* request handlers that may be in flight at once
MaxCookie == 2       \* cookies 0..MaxCookie-1 stand for fastrand::u32(..)
MaxHandles == 2      \* backend locks created over one run
\* MaxHandles <= MaxCookie: as in the program, whose map cannot hold 2^32
\* records, a cookie that is not a key always exists.

Tasks == 1..NumTasks
Cookies == 0..(MaxCookie - 1)
Handles == 1..MaxHandles
Callers == {"A", "B"}          \* unique bus names of clients
NoSender == "nosender"         \* hdr.sender() is None
NoCaller == "-"
NoCookie == -1
NoHandle == 0

\* Holders of the mutex.
Free == [kind |-> "free", id |-> 0]
HB == [kind |-> "heartbeat", id |-> 0]
MAIN == [kind |-> "main", id |-> 0]
Guard(t) == [kind |-> "task", id |-> t]

\* An empty slot of the HashMap.
NoRecord == [sender |-> NoCaller, handle |-> NoHandle]

\* struct StoredInhibitor { inhibitor, sender, _fd }: the backend resources of
\* one record are named by one handle.
StoredInhibitor(s, h) == [sender |-> s, handle |-> h]

VARIABLES
    wayland,        \* cfg(feature = "wayland")
    systemd,        \* cfg(feature = "systemd")
    inhibitors_by_cookie, \* the HashMap<u32, StoredInhibitor>
    lock,           \* holder of the Mutex around the map
    bus,            \* per caller: "fresh", "connected" or "gone"
    pc,             \* per request task: position in inhibit / un_inhibit
    caller,         \* per request task: sender of an inhibit call
    cookie,         \* per request task: the cookie drawn by insert_inhibitor
    handle,         \* per request task: the backend lock it created / removed
    result,         \* per request task: the reply
    late,           \* history, per request task: dispatched after main saw the signal
    nextHandle,     \* number of backend locks created so far
    destroys,       \* per handle: number of destroy_inhibitor calls
    released,       \* history, per handle: what dropped its StoredInhibitor
    hbpc,           \* position of the heartbeat task
    names,          \* heartbeat: the set collected from list_names
    hbStale,        \* history: handles stored and orphaned when the tick fired
    mainpc,         \* position of main
    terminated,     \* value of the watch channel (terminator)
    connOpen        \* the session connection serves requests

vars == <<wayland, systemd, inhibitors_by_cookie, lock, bus, pc, caller, cookie,
          handle, result, late, nextHandle, destroys, released, hbpc, names,
          hbStale, mainpc, terminated, connOpen>>

taskVars == <<pc, caller, cookie, handle, result, late>>
backendVars == <<nextHandle, destroys, released>>
hbVars == <<hbpc, names, hbStale>>
mainVars == <<mainpc, terminated, connOpen>>
cfgVars == <<wayland, systemd>>

\* ---- helpers over the map ----
contains_key(m, c) == m[c] # NoRecord
is_empty(m) == \A c \in Cookies : m[c] = NoRecord
StoredHandles(m) == {m[c].handle : c \in {k \in Cookies : m[k] # NoRecord}}
Connected == {a \in Callers : bus[a] = "connected"}
Exited == mainpc \in {"exited_ok", "exited_err"}

\* HashMap::insert: the value previously under the key is replaced.
insert(m, c, v) == [m EXCEPT ![c] = v]
\* OccupiedEntry::remove
remove(m, c) == [m EXCEPT ![c] = NoRecord]
\* Mutant of retain: the closure answers true for every record.
retain_keeps_all(m, ns) == m

\* HashMap::retain with the closure of heartbeat: keep the senders in ns.
retain(m, ns) == [c \in Cookies |-> IF m[c] # NoRecord /\ m[c].sender \in ns
                                     THEN m[c] ELSE NoRecord]
\* Mutant of evicted: destroy_inhibitor is called before the test of the
\* sender, for every record.
evicted_all(m, ns) == StoredHandles(m)

\* The handles the retain closure hands to destroy_inhibitor.
evicted(m, ns) == {m[c].handle : c \in {k \in Cookies :
                                   m[k] # NoRecord /\ m[k].sender \notin ns}}

Init ==
    /\ wayland \in BOOLEAN
    /\ systemd \in BOOLEAN
    /\ wayland \/ systemd
    /\ inhibitors_by_cookie = [c \in Cookies |-> NoRecord]
    /\ lock = Free
    /\ bus = [a \in Callers |-> "fresh"]
    /\ pc = [t \in Tasks |-> "idle"]
    /\ caller = [t \in Tasks |-> NoCaller]
    /\ cookie = [t \in Tasks |-> NoCookie]
    /\ handle = [t \in Tasks |-> NoHandle]
    /\ result = [t \in Tasks |-> "none"]
    /\ late = [t \in Tasks |-> FALSE]
    /\ nextHandle = 0
    /\ destroys = [h \in Handles |-> 0]
    /\ released = [h \in Handles |-> "none"]
    /\ hbpc = "init"
    /\ names = {}
    /\ hbStale = {}
    /\ mainpc = "run"
    /\ terminated = FALSE
    /\ connOpen = TRUE

\* ---- the bus: clients connect under a fresh unique name and disconnect ----
Connect(a) ==
    /\ ~Exited
    /\ bus[a] = "fresh"
    /\ bus' = [bus EXCEPT ![a] = "connected"]
    /\ UNCHANGED <<cfgVars, inhibitors_by_cookie, lock, taskVars, backendVars,
                   hbVars, mainVars>>

Disconnect(a) ==
    /\ ~Exited
    /\ bus[a] = "connected"
    /\ bus' = [bus EXCEPT ![a] = "gone"]
    /\ UNCHANGED <<cfgVars, inhibitors_by_cookie, lock, taskVars, backendVars,
                   hbVars, mainVars>>

\* ---- the method handlers ----
\* main.rs:168: the handlers share one executor thread; t may run when no
\* other handler is inside a synchronous stretch.
InSync(u) == pc[u] \in {"draw", "insert", "un_destroy"}
ExecutorFree(t) == \A u \in Tasks \ {t} : ~InSync(u)

\* ---- inhibit ----
\* The handler returns r; its locals other than the reply are dead.
Return(t, r) ==
    /\ pc' = [pc EXCEPT ![t] = "done"]
    /\ result' = [result EXCEPT ![t] = r]
    /\ caller' = [caller EXCEPT ![t] = NoCaller]
    /\ cookie' = [cookie EXCEPT ![t] = NoCookie]
    /\ late' = [late EXCEPT ![t] = FALSE]

\* Mutant of inhibit_failed: the record is stored before the backend answers.
inhibit_failed_stored(t, r) ==
    /\ Return(t, r)
    /\ inhibitors_by_cookie' =
         insert(inhibitors_by_cookie, 0, StoredInhibitor("A", handle[t]))
    /\ UNCHANGED <<lock, handle, nextHandle, destroys, released>>

\* main.rs:83-87, 91-94, 100-103: the early returns of inhibit.  Nothing has
\* been stored; with both backends the Wayland inhibitor created before a
\* failed login1 call is dropped without being destroyed.
inhibit_failed(t, r) ==
    /\ Return(t, r)
    /\ released' = IF handle[t] # NoHandle
                     THEN [released EXCEPT ![handle[t]] = "create_failed"]
                     ELSE released
    /\ UNCHANGED <<inhibitors_by_cookie, lock, handle, nextHandle, destroys>>

\* The handlers that have yet to ask the backend for a lock (bounds the run).
Creating == {t \in Tasks : pc[t] = "sd_await" /\ handle[t] = NoHandle}

\* main.rs:76-94: the call is dispatched; no sender is a failure; with the
\* Wayland backend create_inhibitor() is called right away.
inhibit(t, a, ok) ==
    /\ ~Exited /\ connOpen
    /\ ExecutorFree(t)
    /\ pc[t] = "idle"
    /\ nextHandle + Cardinality(Creating) < MaxHandles
    /\ a = NoSender \/ (a \in Callers /\ bus[a] = "connected")
    /\ IF a = NoSender
         THEN inhibit_failed(t, "NoSender")
         ELSE IF wayland /\ ~ok
         THEN inhibit_failed(t, "CreateFailed")
         ELSE /\ caller' = [caller EXCEPT ![t] = a]
              /\ late' = [late EXCEPT ![t] = (mainpc # "run")]
              /\ result' = [result EXCEPT ![t] = "pending"]
              /\ nextHandle' = IF wayland THEN nextHandle + 1 ELSE nextHandle
              /\ handle' = [handle EXCEPT ![t] = IF wayland THEN nextHandle + 1 ELSE NoHandle]
              /\ pc' = [pc EXCEPT ![t] = IF systemd THEN "sd_await" ELSE "draw"]
              /\ UNCHANGED <<inhibitors_by_cookie, lock, cookie, destroys, released>>
    /\ UNCHANGED <<cfgVars, bus, hbVars, mainVars>>

\* main.rs:96-103: login1.inhibit_idle(..).await and its `?`.
sd_inhibit_idle(t, ok) ==
    /\ ~Exited
    /\ ExecutorFree(t)
    /\ pc[t] = "sd_await"
    /\ IF ok
         THEN /\ nextHandle' = IF wayland THEN nextHandle ELSE nextHandle + 1
              /\ handle' = [handle EXCEPT ![t] = IF wayland THEN @ ELSE nextHandle + 1]
              /\ pc' = [pc EXCEPT ![t] = "draw"]
              /\ UNCHANGED <<inhibitors_by_cookie, lock, caller, cookie, result,
                             late, destroys, released>>
         ELSE inhibit_failed(t, "CreateFailed")
    /\ UNCHANGED <<cfgVars, bus, hbVars, mainVars>>

\* Mutant of insert_inhibitor_draw: the guard of the check is kept alive for
\* the insert, which locks again.
insert_inhibitor_draw_keeps_guard(t, c) ==
    /\ ~Exited
    /\ pc[t] = "draw"
    /\ ExecutorFree(t)
    /\ lock = Free
    /\ cookie' = [cookie EXCEPT ![t] = c]
    /\ pc' = [pc EXCEPT ![t] = IF contains_key(inhibitors_by_cookie, c)
                                 THEN "draw" ELSE "insert"]
    /\ lock' = IF contains_key(inhibitors_by_cookie, c) THEN lock ELSE Guard(t)
    /\ UNCHANGED <<cfgVars, inhibitors_by_cookie, bus, caller, handle,
                   result, late, backendVars, hbVars, mainVars>>

\* Mutant of insert_inhibitor_draw: the drawn cookie is taken unchecked.
insert_inhibitor_draw_unchecked(t, c) ==
    /\ ~Exited
    /\ pc[t] = "draw"
    /\ ExecutorFree(t)
    /\ lock = Free
    /\ cookie' = [cookie EXCEPT ![t] = c]
    /\ pc' = [pc EXCEPT ![t] = "insert"]
    /\ UNCHANGED <<cfgVars, inhibitors_by_cookie, lock, bus, caller, handle,
                   result, late, backendVars, hbVars, mainVars>>

\* main.rs:57-65: one turn of the loop of insert_inhibitor: draw a cookie,
\* lock, contains_key, unlock; break when the cookie is not a key.
insert_inhibitor_draw(t, c) ==
    /\ ~Exited
    /\ pc[t] = "draw"
    /\ ExecutorFree(t)
    /\ lock = Free
    /\ cookie' = [cookie EXCEPT ![t] = c]
    /\ pc' = [pc EXCEPT ![t] = IF contains_key(inhibitors_by_cookie, c)
                                 THEN "draw" ELSE "insert"]
    /\ UNCHANGED <<cfgVars, inhibitors_by_cookie, lock, bus, caller, handle,
                   result, late, backendVars, hbVars, mainVars>>

\* main.rs:66-69 and 116-118: lock again, insert, Ok(cookie).  A value
\* replaced by the insert is dropped.
insert_inhibitor_insert(t) ==
    /\ ~Exited
    /\ pc[t] = "insert"
    /\ ExecutorFree(t)
    /\ lock = Free
    /\ inhibitors_by_cookie' =
         insert(inhibitors_by_cookie, cookie[t], StoredInhibitor(caller[t], handle[t]))
    /\ released' = IF contains_key(inhibitors_by_cookie, cookie[t])
                     THEN [released EXCEPT
                             ![inhibitors_by_cookie[cookie[t]].handle] = "replaced"]
                     ELSE released
    /\ Return(t, "Ok")
    /\ UNCHANGED <<cfgVars, lock, bus, handle, nextHandle, destroys, hbVars, mainVars>>

\* The reply has been sent; the handler task is finished.
Reply(t) ==
    /\ ~Exited
    /\ ExecutorFree(t)
    /\ pc[t] = "done"
    /\ pc' = [pc EXCEPT ![t] = "idle"]
    /\ handle' = [handle EXCEPT ![t] = NoHandle]
    /\ result' = [result EXCEPT ![t] = "none"]
    /\ UNCHANGED <<cfgVars, inhibitors_by_cookie, lock, bus, caller, cookie, late,
                   backendVars, hbVars, mainVars>>

\* ---- un_inhibit ----
\* Mutant of un_inhibit_occupied: e.get() instead of e.remove(), the record
\* stays in the map while its inhibitor is destroyed.
un_inhibit_occupied_kept(t, c) ==
    /\ UNCHANGED inhibitors_by_cookie
    /\ handle' = [handle EXCEPT ![t] = inhibitors_by_cookie[c].handle]
    /\ IF wayland
         THEN /\ lock' = Guard(t)
              /\ pc' = [pc EXCEPT ![t] = "un_destroy"]
              /\ result' = [result EXCEPT ![t] = "pending"]
              /\ UNCHANGED <<caller, cookie, late, released>>
         ELSE /\ released' = [released EXCEPT
                                ![inhibitors_by_cookie[c].handle] = "un_inhibit"]
              /\ Return(t, "Ok")
              /\ UNCHANGED lock

\* main.rs:134-147, Entry::Occupied: the record is removed; with the Wayland
\* backend the guard stays alive over destroy_inhibitor, without it the
\* removed value is dropped and the call returns Ok.
un_inhibit_occupied(t, c) ==
    /\ inhibitors_by_cookie' = remove(inhibitors_by_cookie, c)
    /\ handle' = [handle EXCEPT ![t] = inhibitors_by_cookie[c].handle]
    /\ IF wayland
         THEN /\ lock' = Guard(t)
              /\ pc' = [pc EXCEPT ![t] = "un_destroy"]
              /\ result' = [result EXCEPT ![t] = "pending"]
              /\ UNCHANGED <<caller, cookie, late, released>>
         ELSE /\ released' = [released EXCEPT
                                ![inhibitors_by_cookie[c].handle] = "un_inhibit"]
              /\ Return(t, "Ok")
              /\ UNCHANGED lock

\* Mutant of un_inhibit_vacant: or_default() on the vacant entry, the call
\* succeeds.
un_inhibit_vacant_ok(t, c) ==
    /\ Return(t, "Ok")
    /\ UNCHANGED <<inhibitors_by_cookie, lock, handle, released>>

\* main.rs:149-152, Entry::Vacant.
un_inhibit_vacant(t, c) ==
    /\ Return(t, "NotFound")
    /\ UNCHANGED <<inhibitors_by_cookie, lock, handle, released>>

\* main.rs:122-133: the call is dispatched, locks the map and looks the
\* cookie up.  The sender a of the call is only a tracing field.
un_inhibit(t, a, c) ==
    /\ ~Exited /\ connOpen
    /\ ExecutorFree(t)
    /\ pc[t] = "idle"
    /\ a = NoSender \/ (a \in Callers /\ bus[a] = "connected")
    /\ lock = Free
    /\ IF contains_key(inhibitors_by_cookie, c)
         THEN un_inhibit_occupied(t, c)
         ELSE un_inhibit_vacant(t, c)
    /\ UNCHANGED <<cfgVars, bus, nextHandle, destroys, hbVars, mainVars>>

\* main.rs:139-147: destroy_inhibitor on the removed record, then the guard
\* is dropped at the end of the function.
un_inhibit_destroy(t, ok) ==
    /\ ~Exited
    /\ pc[t] = "un_destroy"
    /\ lock = Guard(t)
    /\ destroys' = [destroys EXCEPT ![handle[t]] = @ + 1]
    /\ released' = [released EXCEPT ![handle[t]] = "un_inhibit"]
    /\ Return(t, IF ok THEN "Ok" ELSE "DestroyFailed")
    /\ lock' = Free
    /\ UNCHANGED <<cfgVars, inhibitors_by_cookie, bus, handle, nextHandle,
                   hbVars, mainVars>>

\* ---- heartbeat ----
\* main.rs:274: fdo::DBusProxy::new(&connection).await?
heartbeat_init(ok) ==
    /\ ~Exited
    /\ hbpc = "init"
    /\ hbpc' = IF ok THEN "select" ELSE "failed"
    /\ UNCHANGED <<cfgVars, inhibitors_by_cookie, lock, bus, taskVars, backendVars,
                   names, hbStale, mainVars>>

\* main.rs:276-280: biased select, terminator.changed() first.
heartbeat_terminate ==
    /\ ~Exited
    /\ hbpc = "select"
    /\ terminated
    /\ hbpc' = "stopped"
    /\ UNCHANGED <<cfgVars, inhibitors_by_cookie, lock, bus, taskVars, backendVars,
                   names, hbStale, mainVars>>

\* The handles of the records whose sender is not connected.
Orphans == evicted(inhibitors_by_cookie, Connected)

\* Mutant of heartbeat_tick: the map is not looked at, every tick queries.
heartbeat_tick_always_queries ==
    /\ ~Exited
    /\ hbpc = "select"
    /\ ~terminated
    /\ hbpc' = "list_names"
    /\ hbStale' = Orphans
    /\ UNCHANGED <<cfgVars, inhibitors_by_cookie, lock, bus, taskVars, backendVars,
                   names, mainVars>>

\* Mutant of heartbeat_tick: the guard of the first try_lock is bound to a
\* name and lives over the call of list_names.
heartbeat_tick_keeps_guard ==
    /\ ~Exited
    /\ hbpc = "select"
    /\ ~terminated
    /\ IF lock = Free /\ ~is_empty(inhibitors_by_cookie)
         THEN /\ hbpc' = "list_names"
              /\ hbStale' = Orphans
              /\ lock' = HB
         ELSE UNCHANGED <<hbpc, hbStale, lock>>
    /\ UNCHANGED <<cfgVars, inhibitors_by_cookie, bus, taskVars, backendVars,
                   names, mainVars>>

\* Mutant of heartbeat_tick: the select is not biased, the timer arm may be
\* taken while the signal is pending.
heartbeat_tick_unbiased ==
    /\ ~Exited
    /\ hbpc = "select"
    /\ IF lock = Free /\ ~is_empty(inhibitors_by_cookie)
         THEN /\ hbpc' = "list_names"
              /\ hbStale' = Orphans
         ELSE UNCHANGED <<hbpc, hbStale>>
    /\ UNCHANGED <<cfgVars, inhibitors_by_cookie, lock, bus, taskVars, backendVars,
                   names, mainVars>>

\* main.rs:281: interval.tick() fires; the tick goes on when try_lock
\* succeeds and the map is not empty (the guard is a temporary of the
\* condition), otherwise the loop waits for the next tick.
heartbeat_tick ==
    /\ ~Exited
    /\ hbpc = "select"
    /\ ~terminated
    /\ IF lock = Free /\ ~is_empty(inhibitors_by_cookie)
         THEN /\ hbpc' = "list_names"
              /\ hbStale' = Orphans
         ELSE UNCHANGED <<hbpc, hbStale>>
    /\ UNCHANGED <<cfgVars, inhibitors_by_cookie, lock, bus, taskVars, backendVars,
                   names, mainVars>>

\* main.rs:282-288: proxy.list_names().await? and the filter to unique names.
heartbeat_list_names(ok) ==
    /\ ~Exited
    /\ hbpc = "list_names"
    /\ IF ok
         THEN /\ names' = Connected
              /\ hbpc' = "apply"
              /\ UNCHANGED hbStale
         ELSE /\ hbpc' = "failed"
              /\ hbStale' = {}
              /\ UNCHANGED names
    /\ UNCHANGED <<cfgVars, inhibitors_by_cookie, lock, bus, taskVars, backendVars,
                   mainVars>>

\* Mutant of heartbeat_try_lock: lock() in place of try_lock(), the task waits
\* for the mutex.
heartbeat_try_lock_waits ==
    /\ ~Exited
    /\ hbpc = "apply"
    /\ lock = Free
    /\ lock' = HB
    /\ hbpc' = "retain"
    /\ UNCHANGED <<cfgVars, inhibitors_by_cookie, bus, taskVars, backendVars,
                   names, hbStale, mainVars>>

\* main.rs:290-291 and 307-310: the second try_lock; WouldBlock is `continue`.
heartbeat_try_lock ==
    /\ ~Exited
    /\ hbpc = "apply"
    /\ IF lock = Free
         THEN /\ lock' = HB
              /\ hbpc' = "retain"
              /\ UNCHANGED <<names, hbStale>>
         ELSE /\ hbpc' = "select"
              /\ names' = {}
              /\ hbStale' = {}
              /\ UNCHANGED lock
    /\ UNCHANGED <<cfgVars, inhibitors_by_cookie, bus, taskVars, backendVars,
                   mainVars>>

\* Mutant of heartbeat_retain: the error of destroy_inhibitor is propagated
\* with `?`: the record that failed stays in the map and the task ends.
heartbeat_retain_propagates(failed) ==
    /\ ~Exited
    /\ hbpc = "retain"
    /\ lock = HB
    /\ failed \subseteq (IF wayland THEN evicted(inhibitors_by_cookie, names) ELSE {})
    /\ inhibitors_by_cookie' =
         [c \in Cookies |->
            IF inhibitors_by_cookie[c].handle \in failed
              THEN inhibitors_by_cookie[c]
              ELSE retain(inhibitors_by_cookie, names)[c]]
    /\ destroys' = [h \in Handles |->
                      IF wayland /\ h \in evicted(inhibitors_by_cookie, names)
                        THEN destroys[h] + 1 ELSE destroys[h]]
    /\ released' = [h \in Handles |->
                      IF h \in failed THEN "heartbeat_failed"
                      ELSE IF h \in evicted(inhibitors_by_cookie, names)
                        THEN "heartbeat" ELSE released[h]]
    /\ lock' = Free
    /\ hbpc' = IF failed = {} THEN "select" ELSE "failed"
    /\ names' = {}
    /\ hbStale' = {}
    /\ UNCHANGED <<cfgVars, bus, taskVars, nextHandle, mainVars>>

\* main.rs:292-306: retain under the guard; the closure calls
\* destroy_inhibitor for each record it drops; for the handles in `failed`
\* the call returns Err, which is logged, and the closure still answers false.
heartbeat_retain(failed) ==
    /\ ~Exited
    /\ hbpc = "retain"
    /\ lock = HB
    /\ failed \subseteq (IF wayland THEN evicted(inhibitors_by_cookie, names) ELSE {})
    /\ inhibitors_by_cookie' = retain(inhibitors_by_cookie, names)
    /\ destroys' = [h \in Handles |->
                      IF wayland /\ h \in evicted(inhibitors_by_cookie, names)
                        THEN destroys[h] + 1 ELSE destroys[h]]
    /\ released' = [h \in Handles |->
                      IF h \in failed THEN "heartbeat_failed"
                      ELSE IF h \in evicted(inhibitors_by_cookie, names)
                        THEN "heartbeat" ELSE released[h]]
    /\ lock' = Free
    /\ hbpc' = "select"
    /\ names' = {}
    /\ hbStale' = {}
    /\ UNCHANGED <<cfgVars, bus, taskVars, nextHandle, mainVars>>

\* ---- main ----
\* main.rs:184-188: the ctrlc handler sends true on the watch channel.
signal ==
    /\ ~Exited
    /\ ~terminated
    /\ terminated' = TRUE
    /\ UNCHANGED <<cfgVars, inhibitors_by_cookie, lock, bus, taskVars, backendVars,
                   hbVars, mainpc, connOpen>>

\* main.rs:228: terminator_rx.changed().await
main_changed ==
    /\ mainpc = "run"
    /\ terminated
    /\ mainpc' = "await_hb"
    /\ UNCHANGED <<cfgVars, inhibitors_by_cookie, lock, bus, taskVars, backendVars,
                   hbVars, terminated, connOpen>>

\* The process ends: every descriptor still open is closed by the system.
ProcessExit ==
    released' = [h \in Handles |-> IF h <= nextHandle /\ released[h] = "none"
                                     THEN "exit" ELSE released[h]]

\* main.rs:231: heartbeat_handle.await?? -- an Err of heartbeat is returned
\* from main.
main_join ==
    /\ mainpc = "await_hb"
    /\ hbpc \in {"stopped", "failed"}
    /\ IF hbpc = "stopped"
         THEN /\ mainpc' = "close"
              /\ UNCHANGED released
         ELSE /\ mainpc' = "exited_err"
              /\ ProcessExit
    /\ UNCHANGED <<cfgVars, inhibitors_by_cookie, lock, bus, taskVars, nextHandle,
                   destroys, hbVars, terminated, connOpen>>

\* main.rs:235-237: connection.close().await
main_close ==
    /\ mainpc = "close"
    /\ connOpen' = FALSE
    /\ mainpc' = IF wayland THEN "drain_lock" ELSE "return"
    /\ UNCHANGED <<cfgVars, inhibitors_by_cookie, lock, bus, taskVars, backendVars,
                   hbVars, terminated>>

\* main.rs:244-245: lock the map for the clean up.
main_drain_lock ==
    /\ mainpc = "drain_lock"
    /\ lock = Free
    /\ lock' = MAIN
    /\ mainpc' = "draining"
    /\ UNCHANGED <<cfgVars, inhibitors_by_cookie, bus, taskVars, backendVars,
                   hbVars, terminated, connOpen>>

\* main.rs:246-255: one turn of `for (cookie, inhibitor) in inhibitors.drain()`.
main_drain_next(c) ==
    /\ mainpc = "draining"
    /\ contains_key(inhibitors_by_cookie, c)
    /\ inhibitors_by_cookie' = remove(inhibitors_by_cookie, c)
    /\ destroys' = [destroys EXCEPT ![inhibitors_by_cookie[c].handle] = @ + 1]
    /\ released' = [released EXCEPT ![inhibitors_by_cookie[c].handle] = "drain"]
    /\ UNCHANGED <<cfgVars, lock, bus, taskVars, nextHandle, hbVars, mainVars>>

\* main.rs:255-256: the drain is over, the guard is dropped.
main_drain_end ==
    /\ mainpc = "draining"
    /\ is_empty(inhibitors_by_cookie)
    /\ lock' = Free
    /\ mainpc' = "return"
    /\ UNCHANGED <<cfgVars, inhibitors_by_cookie, bus, taskVars, backendVars,
                   hbVars, terminated, connOpen>>

\* main.rs:258: Ok(())
main_return ==
    /\ mainpc = "return"
    /\ mainpc' = "exited_ok"
    /\ ProcessExit
    /\ UNCHANGED <<cfgVars, inhibitors_by_cookie, lock, bus, taskVars, nextHandle,
                   destroys, hbVars, terminated, connOpen>>

Next ==
    \/ \E a \in Callers : Connect(a)
    \/ \E a \in Callers : Disconnect(a)
    \/ \E t \in Tasks, a \in Callers \cup {NoSender}, ok \in BOOLEAN : inhibit(t, a, ok)
    \/ \E t \in Tasks, ok \in BOOLEAN : sd_inhibit_idle(t, ok)
    \/ \E t \in Tasks, c \in Cookies : insert_inhibitor_draw(t, c)
    \/ \E t \in Tasks : insert_inhibitor_insert(t)
    \/ \E t \in Tasks, a \in Callers \cup {NoSender}, c \in Cookies : un_inhibit(t, a, c)
    \/ \E t \in Tasks, ok \in BOOLEAN : un_inhibit_destroy(t, ok)
    \/ \E t \in Tasks : Reply(t)
    \/ \E ok \in BOOLEAN : heartbeat_init(ok)
    \/ heartbeat_terminate
    \/ heartbeat_tick
    \/ \E ok \in BOOLEAN : heartbeat_list_names(ok)
    \/ heartbeat_try_lock
    \/ \E failed \in SUBSET Handles : heartbeat_retain(failed)
    \/ signal
    \/ main_changed
    \/ main_join
    \/ main_close
    \/ main_drain_lock
    \/ \E c \in Cookies : main_drain_next(c)
    \/ main_drain_end
    \/ main_return

Spec == Init /\ [][Next]_vars

\* ---- progress ----
\* The state after construction of a build with both backends (a handler
\* passes through every step of inhibit and un_inhibit) when a second client
\* has already come and gone: the runs on which progress is checked have one
\* client on the bus.
LiveInit ==
    /\ wayland = TRUE
    /\ systemd = TRUE
    /\ inhibitors_by_cookie = [c \in Cookies |-> NoRecord]
    /\ lock = Free
    /\ bus = [a \in Callers |-> IF a = "A" THEN "fresh" ELSE "gone"]
    /\ pc = [t \in Tasks |-> "idle"]
    /\ caller = [t \in Tasks |-> NoCaller]
    /\ cookie = [t \in Tasks |-> NoCookie]
    /\ handle = [t \in Tasks |-> NoHandle]
    /\ result = [t \in Tasks |-> "none"]
    /\ late = [t \in Tasks |-> FALSE]
    /\ nextHandle = 0
    /\ destroys = [h \in Handles |-> 0]
    /\ released = [h \in Handles |-> "none"]
    /\ hbpc = "init"
    /\ names = {}
    /\ hbStale = {}
    /\ mainpc = "run"
    /\ terminated = FALSE
    /\ connOpen = TRUE

\* A handler that is ready to run is run by the executor, and a handler
\* waiting in Mutex::lock gets the mutex when it is released often enough
\* (strong fairness: the heartbeat takes the mutex once per tick); the
\* backends answer; fastrand::u32 does not return taken cookies for ever.
HandlerFairness ==
    \A t \in Tasks :
       /\ SF_vars(\E ok \in BOOLEAN : sd_inhibit_idle(t, ok))
       /\ SF_vars(\E c \in Cookies : insert_inhibitor_draw(t, c) /\ pc'[t] = "insert")
       /\ SF_vars(insert_inhibitor_insert(t))
       /\ WF_vars(\E ok \in BOOLEAN : un_inhibit_destroy(t, ok))

\* The heartbeat task is polled by the runtime; the bus answers its calls.
HeartbeatFairness ==
    /\ WF_vars(\E ok \in BOOLEAN : heartbeat_init(ok))
    /\ WF_vars(heartbeat_terminate)
    /\ WF_vars(\E ok \in BOOLEAN : heartbeat_list_names(ok))
    /\ WF_vars(heartbeat_try_lock)
    /\ WF_vars(\E failed \in SUBSET Handles : heartbeat_retain(failed))

\* Progress of the handlers: what they wait for makes progress (the retain of
\* the heartbeat and the drain of main hold the mutex over synchronous code).
FairSpec ==
    /\ LiveInit
    /\ [][Next]_vars
    /\ HandlerFairness
    /\ WF_vars(\E failed \in SUBSET Handles : heartbeat_retain(failed))
    /\ WF_vars(\E c \in Cookies : main_drain_next(c))
    /\ WF_vars(main_drain_end)

\* Progress of the heartbeat task.
HeartbeatSpec == LiveInit /\ [][Next]_vars /\ HeartbeatFairness

\* ---- properties ----
\* The backend has been handed the handle back: destroy_inhibitor was called
\* on it (Wayland), or its descriptor was released (logind).
HandedBack(h) == IF wayland THEN destroys[h] >= 1 ELSE released[h] # "none"
\* The handles a handler in flight owns in a local.
InFlight == {handle[t] : t \in {u \in Tasks :
                pc[u] \in {"sd_await", "draw", "insert", "un_destroy"}}}
\* The handles created so far, but for those of an Inhibit that failed before
\* it stored a record.
Stored == {h \in 1..nextHandle : released[h] # "create_failed"}
\* A heartbeat tick that went past its first check ends with this step.
TickEnd == hbpc \in {"list_names", "apply", "retain"} /\ hbpc' \in {"select", "failed"}

\* C1: an UnInhibit(c) from a caller other than the creator of the record of
\* c fails with Unauthorized and leaves the store unchanged.
C1_Claim ==
    [][\A t \in Tasks, a \in Callers, c \in Cookies :
         (/\ un_inhibit(t, a, c)
          /\ contains_key(inhibitors_by_cookie, c)
          /\ inhibitors_by_cookie[c].sender # a)
         => (/\ inhibitors_by_cookie' = inhibitors_by_cookie
             /\ result'[t] = "Unauthorized")]_vars

\* C2: a cookie is never handed out while an active record has that cookie:
\* the insert of insert_inhibitor never replaces a record of the store, and
\* the handles of the records in the store are pairwise distinct.
C2_Unique ==
    [][/\ \A t \in Tasks :
            insert_inhibitor_insert(t)
            => ~contains_key(inhibitors_by_cookie, cookie[t])
       /\ \A c, d \in Cookies :
            (/\ c # d
             /\ contains_key(inhibitors_by_cookie', c)
             /\ contains_key(inhibitors_by_cookie', d))
            => inhibitors_by_cookie'[c].handle # inhibitors_by_cookie'[d].handle]_vars

\* C2 witness: two inhibitions are active at once (under distinct cookies),
\* the second inserted while the first was in the store.
C2_Witness ==
    /\ Cardinality(StoredHandles(inhibitors_by_cookie)) >= 2
    /\ \E t \in Tasks : pc[t] = "done" /\ result[t] = "Ok"

\* C3 (as claimed): at the end of every heartbeat tick over a non-empty store,
\* every record that was orphaned when the tick fired has been removed and
\* its handle destroyed exactly once.
C3_Claim ==
    [][TickEnd =>
         \A h \in hbStale :
            /\ h \notin StoredHandles(inhibitors_by_cookie')
            /\ wayland => destroys'[h] = 1]_vars

\* C3 (amended): the retain step of a tick removes exactly the records whose
\* sender is not in the set the tick's list_names returned, destroys each of
\* their handles exactly once and keeps the other records; a tick that ends
\* any other way (lock contended, list_names failed) changes neither the store
\* nor any handle.
C3_RetainEvicts ==
    [][TickEnd =>
         IF hbpc = "retain"
           THEN \A c \in Cookies :
                  IF /\ contains_key(inhibitors_by_cookie, c)
                     /\ inhibitors_by_cookie[c].sender \notin names
                    THEN /\ inhibitors_by_cookie'[c] = NoRecord
                         /\ released'[inhibitors_by_cookie[c].handle]
                              \in {"heartbeat", "heartbeat_failed"}
                         /\ wayland => destroys'[inhibitors_by_cookie[c].handle] = 1
                    ELSE /\ inhibitors_by_cookie'[c] = inhibitors_by_cookie[c]
                         /\ contains_key(inhibitors_by_cookie, c) =>
                              /\ destroys'[inhibitors_by_cookie[c].handle] = 0
                              /\ released'[inhibitors_by_cookie[c].handle] = "none"
           ELSE /\ inhibitors_by_cookie' = inhibitors_by_cookie
                /\ destroys' = destroys
                /\ released' = released]_vars

\* C3 witness: the heartbeat has evicted a record and its handle was
\* destroyed once.
C3_Witness ==
    \E h \in Handles : released[h] = "heartbeat" /\ (wayland => destroys[h] = 1)

\* C4: an orphaned record is reclaimed by the first tick after its owner
\* disconnected; so, as long as no termination signal has been sent, an
\* orphaned record in the store still has a running heartbeat ahead of it.
C4_Claim == ~(~terminated /\ hbpc = "failed" /\ Orphans # {})

\* C5: when the process has exited, every record still in the store has had
\* its backend handle released (destroyed for Wayland, descriptor closed for
\* logind).
C5_Claim ==
    Exited => \A c \in Cookies :
                 contains_key(inhibitors_by_cookie, c)
                 => HandedBack(inhibitors_by_cookie[c].handle)

\* C6: no Inhibit call succeeds once the termination signal has been sent; in
\* particular a call dispatched after main has seen the signal and begun
\* to shut down never inserts a record and returns a cookie.
C6_Claim ==
    [][\A t \in Tasks : insert_inhibitor_insert(t) => ~late[t]]_vars

\* C7: every handle created is handed back to the backend exactly once: never
\* twice, never lost while the process runs (it is in the store, in a local
\* of a handler in flight, or handed back), and what the store still holds
\* at exit has been handed back.
C7_Claim ==
    /\ \A h \in Handles : destroys[h] <= 1
    /\ \A h \in Stored :
          h \in StoredHandles(inhibitors_by_cookie) \/ h \in InFlight \/ HandedBack(h)
    /\ Exited => \A h \in StoredHandles(inhibitors_by_cookie) : HandedBack(h)

\* C8: UnInhibit(c) for a cookie without a record returns a failure and leaves
\* the store, the lock and every backend handle as they were.
C8_NotFound ==
    [][\A t \in Tasks, a \in Callers \cup {NoSender}, c \in Cookies :
         (un_inhibit(t, a, c) /\ ~contains_key(inhibitors_by_cookie, c))
         => (/\ pc'[t] = "done"
             /\ result'[t] = "NotFound"
             /\ inhibitors_by_cookie' = inhibitors_by_cookie
             /\ lock' = lock
             /\ destroys' = destroys
             /\ released' = released)]_vars

\* C8 witness: an UnInhibit has returned NotFound after some record had been
\* released by an UnInhibit or evicted by the heartbeat.
C8_Witness ==
    /\ \E t \in Tasks : pc[t] = "done" /\ result[t] = "NotFound"
    /\ \E h \in Handles : released[h] \in {"un_inhibit", "heartbeat"}

\* C9: an Inhibit that ends with a failure of the backend (or without a
\* sender) has changed nothing in the store: neither its last step nor the
\* step that suspended it on the login1 call touches the map or its lock.
C9_FailedInhibitNoTrace ==
    [][\A t \in Tasks :
         (\/ /\ pc[t] \in {"idle", "sd_await"}
             /\ pc'[t] = "done"
             /\ result'[t] \in {"CreateFailed", "NoSender"}
          \/ /\ pc[t] = "idle"
             /\ pc'[t] = "sd_await")
         => (/\ inhibitors_by_cookie' = inhibitors_by_cookie
             /\ lock' = lock)]_vars

\* C9 witness: an Inhibit has failed in the backend while the store holds a
\* record.
C9_Witness ==
    /\ \E t \in Tasks : pc[t] = "done" /\ result[t] = "CreateFailed"
    /\ ~is_empty(inhibitors_by_cookie)

\* C10: when destroy_inhibitor fails in UnInhibit the caller gets a failure
\* and the record stays removed: a handle that was passed to
\* destroy_inhibitor is not in the store, whatever the reply was.
C10_DestroyFailedStaysRemoved ==
    /\ \A t \in Tasks :
          (pc[t] = "done" /\ result[t] = "DestroyFailed")
          => (/\ handle[t] \notin StoredHandles(inhibitors_by_cookie)
              /\ destroys[handle[t]] = 1)
    /\ \A h \in Handles :
          destroys[h] >= 1 => h \notin StoredHandles(inhibitors_by_cookie)

\* C10 witness: an UnInhibit has returned the failure of destroy_inhibitor.
C10_Witness == \E t \in Tasks : pc[t] = "done" /\ result[t] = "DestroyFailed"

C12_Claim ==
    /\ \A t \in Tasks : pc[t] \in {"sd_await", "un_destroy"} => lock # Guard(t)
    /\ hbpc = "list_names" => lock # HB
    /\ (hbpc = "retain" /\ wayland /\ evicted(inhibitors_by_cookie, names) # {})
          => lock # HB
    /\ (mainpc = "draining" /\ ~is_empty(inhibitors_by_cookie)) => lock # MAIN

\* C13: no task is suspended at an await while it holds the mutex: the guard
\* of a handler lives only over destroy_inhibitor, that of the heartbeat only
\* over retain, that of main only over the drain, and a handler awaiting
\* login1 or a heartbeat awaiting list_names or its timer holds nothing.
C13_NoGuardAcrossAwait ==
    /\ \A t \in Tasks : lock = Guard(t) => pc[t] = "un_destroy"
    /\ lock = HB => hbpc = "retain"
    /\ lock = MAIN => mainpc = "draining"
    /\ \A t \in Tasks : pc[t] = "sd_await" => lock # Guard(t)
    /\ hbpc \in {"init", "select", "list_names"} => lock # HB

\* C13 witness: a handler awaits login1 and the heartbeat awaits list_names
\* while the mutex is held (by another handler).
C13_Witness ==
    /\ \E t \in Tasks : pc[t] = "sd_await"
    /\ hbpc = "list_names"
    /\ lock # Free

\* C14: the heartbeat evicts a record only when its owner is no longer
\* connected: every record removed by the retain step of a tick belongs to a
\* sender that is not on the bus at that moment.
C14_Claim ==
    [][(hbpc = "retain" /\ hbpc' # hbpc) =>
         \A c \in Cookies :
            (/\ contains_key(inhibitors_by_cookie, c)
             /\ ~contains_key(inhibitors_by_cookie', c))
            => inhibitors_by_cookie[c].sender \notin Connected]_vars

\* C15: the heartbeat never waits for the mutex: its steps can be taken
\* whoever holds it, and a tick that finds it held (at the check of line 281
\* or at the second try_lock) ends there: the heartbeat is back at its select,
\* not failed, and the map, the mutex and every backend handle are untouched.
C15_ContendedTickAbandoned ==
    [][/\ hbpc = "select" /\ ~terminated => ENABLED heartbeat_tick
       /\ hbpc = "apply" => ENABLED heartbeat_try_lock
       /\ (/\ lock # Free
           /\ hbpc \in {"select", "apply"}
           /\ ~terminated
           /\ <<hbpc, names, hbStale>> # <<hbpc', names', hbStale'>>)
          => (/\ hbpc' = "select"
              /\ inhibitors_by_cookie' = inhibitors_by_cookie
              /\ lock' = lock
              /\ destroys' = destroys
              /\ released' = released)]_vars

\* C15 witness: the second try_lock of a tick is about to find the mutex
\* held by a handler while the map holds an orphan the tick would evict.
C15_Witness ==
    /\ hbpc = "apply"
    /\ \E t \in Tasks : lock = Guard(t)
    /\ evicted(inhibitors_by_cookie, names) # {}

\* C16: a tick over an empty map asks the bus nothing and changes nothing:
\* the heartbeat stays at its select with the map, the mutex, the collected
\* names and the backend handles as they were.
C16_IdleSkip ==
    [][(heartbeat_tick /\ is_empty(inhibitors_by_cookie))
         => (/\ hbpc' = "select"
             /\ names' = names
             /\ inhibitors_by_cookie' = inhibitors_by_cookie
             /\ lock' = lock
             /\ destroys' = destroys
             /\ released' = released)]_vars

\* C16 witness: the heartbeat waits for a tick over a map that is empty again
\* after a record was stored and released, with the mutex free.
C16_Witness ==
    /\ hbpc = "select"
    /\ ~terminated
    /\ is_empty(inhibitors_by_cookie)
    /\ lock = Free
    /\ \E h \in Handles : released[h] \in {"un_inhibit", "heartbeat"}

\* C17: cancellation wins over the timer: once the signal has been sent, a
\* heartbeat waiting in its select can only leave the loop (no tick starts:
\* no list_names, no eviction), and it does leave it; a heartbeat that was
\* inside a tick when the signal came finishes that tick first.  In every
\* case the heartbeat task ends after the signal.
C17_CancelFirst ==
    /\ [][(terminated /\ hbpc = "select")
            => (/\ ~ENABLED heartbeat_tick
                /\ hbpc' \in {"select", "stopped"}
                /\ hbpc' = "stopped" =>
                     /\ inhibitors_by_cookie' = inhibitors_by_cookie
                     /\ destroys' = destroys
                     /\ released' = released
                     /\ names' = names)]_vars
    /\ terminated ~> hbpc \in {"stopped", "failed"}

\* C17 witness: the heartbeat has left its loop on the signal while the map
\* still held a record of a client that is gone (work a tick would have done).
C17_Witness ==
    /\ terminated
    /\ hbpc = "stopped"
    /\ Orphans # {}

\* C18: a record is released once: what dropped a record is written once per
\* handle, destroy_inhibitor is called at most once per handle, a handle in
\* the map of the running process or in the hands of an un_inhibit about to
\* destroy it has not been released or destroyed by anyone else, and an
\* un_inhibit succeeds only on a record that is in the map when it is called
\* (for a cookie whose record is gone it returns NotFound, C8).
C18_SingleRelease ==
    [][/\ \A h \in Handles :
            /\ destroys'[h] <= 1
            /\ released[h] # "none" => released'[h] = released[h]
            /\ (h \in StoredHandles(inhibitors_by_cookie') /\ ~Exited')
                 => (released'[h] = "none" /\ destroys'[h] = 0)
       /\ \A t \in Tasks :
            (pc'[t] = "un_destroy" /\ ~Exited')
              => (/\ handle'[t] \notin StoredHandles(inhibitors_by_cookie')
                  /\ released'[handle'[t]] = "none"
                  /\ destroys'[handle'[t]] = 0
                  /\ \A u \in Tasks \ {t} : pc'[u] = "un_destroy" => handle'[u] # handle'[t])
       /\ \A t \in Tasks :
            (/\ pc[t] = "idle"
             /\ pc'[t] \in {"done", "un_destroy"}
             /\ result'[t] \in {"Ok", "pending"}
             /\ handle'[t] # NoHandle)
            => (/\ handle'[t] \in StoredHandles(inhibitors_by_cookie)
                /\ handle'[t] \notin StoredHandles(inhibitors_by_cookie'))]_vars

\* C18 witness: of two UnInhibit calls, one has removed the record and
\* released its handle, the other has returned NotFound.
C18_Witness ==
    \E t, u \in Tasks :
       /\ t # u
       /\ pc[t] = "done" /\ result[t] = "Ok" /\ handle[t] # NoHandle
       /\ released[handle[t]] = "un_inhibit"
       /\ pc[u] = "done" /\ result[u] = "NotFound"

\* C19: eviction is best effort: the retain step removes every record whose
\* sender is not in the collected names, also those whose destroy_inhibitor
\* fails, calls destroy_inhibitor once for each of them and leaves the
\* heartbeat in its loop; a handle whose destroy failed is never in the map
\* again and is never destroyed again.
C19_BestEffort ==
    [][/\ (hbpc = "retain" /\ hbpc' # hbpc) =>
            /\ hbpc' = "select"
            /\ \A c \in Cookies :
                 (/\ contains_key(inhibitors_by_cookie, c)
                  /\ inhibitors_by_cookie[c].sender \notin names)
                 => (/\ inhibitors_by_cookie'[c] = NoRecord
                     /\ wayland => destroys'[inhibitors_by_cookie[c].handle] = 1)
       /\ \A h \in Handles :
            released[h] = "heartbeat_failed"
              => (/\ released'[h] = "heartbeat_failed"
                  /\ destroys'[h] = 1
                  /\ h \notin StoredHandles(inhibitors_by_cookie'))]_vars

\* C19 witness: the heartbeat is back in its loop after evictions of which
\* one destroy failed and another succeeded, and the map is empty.
C19_Witness ==
    /\ hbpc = "select"
    /\ is_empty(inhibitors_by_cookie)
    /\ \E h, g \in Handles :
          released[h] = "heartbeat_failed" /\ released[g] = "heartbeat"

\* C20: the heartbeat ends only on cancellation: as long as no signal has
\* been sent, no step of the loop (a tick over an empty map, a contended
\* try_lock, the answer of list_names, the retain) ends the task.
C20_Claim ==
    [][(~terminated /\ hbpc \in {"select", "list_names", "apply", "retain"})
         => hbpc' \notin {"stopped", "failed"}]_vars

====
